---- MODULE Spec2Model ----
(***************************************************************************)
(* State-machine model of the client orchestration hooks of Agentic-Ads:   *)
(*   useAppState      (view / form / result / feedback draft state)        *)
(*   useApiData       (generationHistory / feedbackList and their writes)   *)
(*   useAdGeneration  (handleGenerate)                                      *)
(*   useFeedbackHandler (handleActionClick, submitFeedback)                 *)
(*   useAdminAuth     (handleAdminLogin, handleAdminLogout)                 *)
(* Every await of a handler is a position (pc) of an invocation record; the *)
(* backend's answer to each request is a nondeterministic input.            *)
(*                                                                          *)
(* Not modelled: console logging, wall-clock fields (date, time) of the     *)
(* records, and the Date.now() id of a history entry, which                 *)
(* addGenerationHistory overwrites with its own id before use.              *)
(***************************************************************************)
EXTENDS Integers, Sequences, FiniteSets, TLC

VARIABLES
  currentView,          \* useAppState: 'welcome' | 'app' | 'admin'
  isAdminAuthenticated, \* useAppState
  adminToken,           \* useAppState: bearer token or Null
  formData,             \* useAppState: the generation form
  generating,           \* useAppState
  result,               \* useAppState: GenerationResult or NoResult
  showFeedbackModal,    \* useAppState
  feedbackType,         \* useAppState: action tag or Null
  feedback,             \* useAppState: the feedback draft
  generationHistory,    \* useApiData: local list
  feedbackList,         \* useApiData: local list
  genCalls,             \* invocations of handleGenerate (in flight, or the last finished)
  fbCalls,              \* invocations of submitFeedback awaiting addFeedback
  dlCalls,              \* invocations of handleActionClick awaiting downloadAsset
  alertDialog,          \* message of the alert() dialog on screen, or Null
  showAdminLogin,       \* useAppState
  adminCredentials,     \* useAppState: the credential draft
  storage,              \* localStorage: the three entries of useAppState
  loginCalls,           \* invocations of handleAdminLogin awaiting the login request
  loading,              \* useApiData
  error,                \* useApiData: message or Null
  loads                 \* runs of fetchData / refreshData with a fetch in flight

appVars  == <<currentView, isAdminAuthenticated, adminToken>>
genVars  == <<formData, generating, result, generationHistory, genCalls>>
fbVars   == <<showFeedbackModal, feedbackType, feedback, feedbackList, fbCalls, dlCalls, alertDialog>>
sessVars == <<showAdminLogin, adminCredentials, storage, loginCalls>>
cacheVars == <<loading, error, loads>>
vars     == <<appVars, genVars, fbVars, sessVars, cacheVars>>

----------------------------------------------------------------------------
(* Bounds of the model *)

\* cycles are started only while the local history list is shorter than this
MaxHistory == 2
\* feedback is submitted only while the local feedback list and the feedback writes
\* in flight are together fewer than this
MaxFeedback == 1
\* handleActionClick starts a download only while fewer than this are in flight
MaxDownloads == 1

----------------------------------------------------------------------------
(* JavaScript values *)

\* undefined / a missing property
Undefined == "<undefined>"
\* null
Null == "<null>"
\* !v for a string-or-missing value
Falsy(v) == v \in {"", Undefined, Null}

\* window.alert() blocks the page until the dialog is dismissed: no handler and no
\* promise callback runs while alertDialog holds a message
NoAlert == alertDialog = Null

----------------------------------------------------------------------------
(* Input domains *)

AdTexts == {"", "   ", "Try our app"}
Tones == {"professional", "fun"}
Platforms == {"Instagram", "LinkedIn"}
OutputKinds == {"text", "poster", "video"}
\* the order of formData.outputs is the order in which the kinds were toggled on
OutputLists == {<<>>, <<"text">>, <<"video", "poster">>, <<"text", "poster", "video">>}
Logos == {Undefined, "logo.png"}

\* s.trim() on the ad texts of the model
Trim(s) == IF s = "   " THEN "" ELSE s

\* s.charAt(0).toUpperCase() + s.slice(1) on the tones and output kinds of the model
Capitalize(s) ==
  CASE s = "professional" -> "Professional"
    [] s = "fun"          -> "Fun"
    [] s = "text"         -> "Text"
    [] s = "poster"       -> "Poster"
    [] s = "video"        -> "Video"
    [] OTHER              -> s

\* array.join(sep)
RECURSIVE Join(_, _)
Join(seq, sep) ==
  IF seq = <<>> THEN ""
  ELSE IF Len(seq) = 1 THEN seq[1]
  ELSE seq[1] \o sep \o Join(Tail(seq), sep)

\* array.map(o => capitalize(o))
MapCapitalize(seq) == [k \in 1..Len(seq) |-> Capitalize(seq[k])]

\* useAppState: the initial form
InitialFormData ==
  [adText |-> "", tone |-> "professional", platform |-> "Instagram",
   outputs |-> <<>>, logoPosition |-> "bottom-right", logo |-> Undefined]

Forms ==
  {[adText |-> a, tone |-> t, platform |-> p, outputs |-> o,
    logoPosition |-> "bottom-right", logo |-> l] :
     a \in AdTexts, t \in Tones, p \in Platforms, o \in OutputLists, l \in Logos}

----------------------------------------------------------------------------
(* useAdGeneration: constants of the hook *)

\* API_BASE_URL unset: the defaults of the hook
normalizedApiBase == "http://localhost:8000/api"
backendBaseUrl == "http://localhost:8000"
buildApiUrl(endpoint) == normalizedApiBase \o "/rag/" \o endpoint

fallbackText == "AI generation temporarily unavailable. Using smart templates instead. Ready to level up your business? Our premium solutions deliver exceptional results!"
fallbackPosterPrompt == "Create a stunning visual advertisement featuring premium quality and professional design elements for maximum engagement."
fallbackPosterPreview == "https://via.placeholder.com/1080x1080/FF6B6B/ffffff?text=Generated+Poster"
fallbackVideoScript == "SCENE 1: Dynamic opening with energetic music NARRATION: Transform your business today! SCENE 2: Show product benefits NARRATION: See the difference quality makes SCENE 3: Strong call-to-action NARRATION: Contact us now for premium solutions!"

\* asset paths a backend answer may carry
AbsolutePaths == {"https://cdn.example.com/poster.png", "//cdn.example.com/ad.gif", "data:image/png;base64,AAAA"}
SlashPaths == {"/static/posters/poster_1.png", "/static/videos/ad_1.gif"}
BarePaths == {"static/videos/ad_2.gif"}

resolveBackendUrl(path) ==
  IF Falsy(path) THEN Undefined
  ELSE IF path \in AbsolutePaths THEN path
  ELSE backendBaseUrl \o (IF path \in SlashPaths THEN path ELSE "/" \o path)

----------------------------------------------------------------------------
(* The backend's answers to POST /rag/generate[-with-logo] *)

Body(t, pp, pu, vs, vu, vf, qs, vfb) ==
  [text |-> t, poster_prompt |-> pp, poster_url |-> pu, video_script |-> vs,
   video_gif_url |-> vu, video_gif_filename |-> vf, quality_scores |-> qs,
   validation_feedback |-> vfb]

\* {text: "", poster_prompt: "", video_script: ""}
EmptyBody == Body("", "", Undefined, "", Undefined, Undefined, Undefined, Undefined)

Bodies ==
  { EmptyBody,
    Body("Rewritten ad", "Poster prompt", "/static/posters/poster_1.png", "Video script",
         "/static/videos/ad_1.gif", "ad_1.gif", "{text: 0.9}", "{text: ok}"),
    Body("Rewritten ad", "", Undefined, "", Undefined, Undefined, "{text: 0.9}", Undefined),
    Body("", "", "https://cdn.example.com/poster.png", "", Undefined, Undefined, Undefined, Undefined),
    Body("", "", Undefined, "", "static/videos/ad_2.gif", Undefined, Undefined, Undefined),
    Body("", "Poster prompt", Undefined, "Video script", Undefined, Undefined, Undefined, "{poster: ok}") }

\* kind: "network"    fetch rejects
\*       "non2xx"     a response with ok = false (HTTP 500)
\*       "unparsable" a 2xx response whose body is not JSON
\*       "null"       a 2xx response whose JSON body is null
\*       "ok"         a 2xx response whose JSON body is an object
Reply(k, b) == [kind |-> k, body |-> b]
NoReply == Reply("none", EmptyBody)
Replies ==
  {Reply(k, EmptyBody) : k \in {"network", "non2xx", "unparsable", "null"}}
    \cup {Reply("ok", b) : b \in Bodies}

----------------------------------------------------------------------------
(* handleGenerate: the pieces of the handler *)

\* lines 35-36: the endpoint
Endpoint(form) == IF form.logo # Undefined THEN "generate-with-logo" ELSE "generate"

\* lines 50-85: the request sent, multipart with a logo and JSON without
GenerationRequest(form) ==
  [url |-> buildApiUrl(Endpoint(form)),
   encoding |-> IF form.logo # Undefined THEN "multipart" ELSE "json",
   platform |-> form.platform,
   tone |-> form.tone,
   ad_text |-> form.adText,
   outputs |-> IF form.logo # Undefined THEN <<Join(form.outputs, ",")>> ELSE form.outputs,
   logo_position |-> IF Falsy(form.logoPosition) THEN "top-right" ELSE form.logoPosition,
   logo_file |-> form.logo]

\* lines 65-105: does the try block throw before it reaches the history write?
\* fetch rejects; !response.ok throws; response.json() rejects; result.errors of null throws
ResponseThrows(reply) == reply.kind \in {"network", "non2xx", "unparsable", "null"}

\* lines 116 and 166: the status of the history entry built on each path
StatusAlwaysCompleted(path) == "Completed"
HistoryStatus(path) == IF path = "try" THEN "Completed" ELSE "Fallback"

\* lines 108-117 and 158-167: newGeneration / fallbackGeneration
HistoryEntry(form, path) ==
  [id |-> 0,
   platform |-> form.platform,
   tone |-> Capitalize(form.tone),
   adText |-> form.adText,
   outputs |-> Join(MapCapitalize(form.outputs), ", "),
   status |-> HistoryStatus(path)]

\* lines 119-120 and 169-170: the history write is attempted whatever the token
WritesHistoryOnlyWithToken(token) == token # Null
WritesHistory(token) == TRUE

\* lines 122-125 and 172-174: the catch of the history write swallows the error
SwallowsOnlyInCatch(path) == path = "catch"
SwallowsHistoryError(path) == TRUE

\* line 137
hasEmptyResultsStrict(body) ==
  /\ body.text = Undefined /\ body.poster_prompt = Undefined /\ body.poster_url = Undefined
  /\ body.video_script = Undefined /\ body.video_gif_url = Undefined
hasEmptyResults(body) ==
  /\ Falsy(body.text) /\ Falsy(body.poster_prompt) /\ Falsy(body.poster_url)
  /\ Falsy(body.video_script) /\ Falsy(body.video_gif_url)

\* a || b
Or(a, b) == IF Falsy(a) THEN b ELSE a

\* lines 143-152: the result built from the backend's answer
SuccessResult(body) ==
  [rewrittenText |-> Or(body.text, IF hasEmptyResults(body) THEN fallbackText
                                    ELSE "Generated content not available"),
   posterUrl |-> Or(body.poster_prompt, IF hasEmptyResults(body) THEN fallbackPosterPrompt
                                         ELSE "Poster prompt not generated"),
   poster_url |-> resolveBackendUrl(body.poster_url),
   videoUrl |-> resolveBackendUrl(body.video_gif_url),
   videoScript |-> Or(body.video_script, IF hasEmptyResults(body) THEN fallbackVideoScript
                                          ELSE "Video script not generated"),
   videoFilename |-> Or(body.video_gif_filename, Undefined),
   qualityScores |-> Or(body.quality_scores, "{}"),
   validationFeedback |-> Or(body.validation_feedback, "{}")]

\* lines 177-184: the canned result of the catch block
FallbackResult ==
  [rewrittenText |-> fallbackText, posterUrl |-> fallbackPosterPrompt,
   poster_url |-> fallbackPosterPreview, videoUrl |-> Undefined,
   videoScript |-> fallbackVideoScript, videoFilename |-> Undefined,
   qualityScores |-> Undefined, validationFeedback |-> Undefined]

\* line 177: what the catch block hands to setResult; the captured form and the
\* failed reply are in scope there
CatchResultEchoesForm(form, reply) == [FallbackResult EXCEPT !.rewrittenText = form.adText]
CatchResult(form, reply) == FallbackResult

\* useAppState line 21: result starts as null
NoResult == [null |-> TRUE]

\* useAppState lines 62-66
InitialFeedback == [email |-> "", message |-> "", rating |-> 5]

\* lines 185-187: the value the finally block gives to generating
GeneratingStuckAfterCatch(path) == path = "catch"
GeneratingAfter(path) == FALSE

----------------------------------------------------------------------------
(* useApiData: addGenerationHistory / addFeedback *)

Max(S) == CHOOSE m \in S : \A x \in S : x <= m
Ids(list) == {list[k].id : k \in 1..Len(list)}

\* lines 81 and 102: Math.max(...list.map(x => x.id), 0) + 1
NewId(list) == Max(Ids(list) \cup {0}) + 1

\* lines 82 and 103: {...record, id: newId}; list is the list the caller's render saw
WithIdKeepsZero(record, list) == record
WithId(record, list) == [record EXCEPT !.id = NewId(list)]

----------------------------------------------------------------------------
(* useAppState: the session and its durable entries *)

\* lines 68-71: the initial credential draft
InitialCredentials == [username |-> "", password |-> ""]

\* the three state values that have a localStorage entry
Session == [view |-> currentView, token |-> adminToken, flag |-> isAdminAuthenticated]

\* localStorage without the three entries; getItem of a missing entry is null
EmptyStorage == [currentView |-> Null, isAdminAuthenticated |-> Null, adminToken |-> Null]

\* lines 24-26: the effect of [currentView]
PersistView(store, s) == [store EXCEPT !.currentView = s.view]
\* lines 28-34: the effect of [adminToken]
PersistToken(store, s) ==
  [store EXCEPT !.adminToken = IF Falsy(s.token) THEN Null ELSE s.token]
\* lines 36-38: the effect of [isAdminAuthenticated]
PersistFlag(store, s) ==
  [store EXCEPT !.isAdminAuthenticated = IF s.flag THEN "true" ELSE "false"]

\* the first render: every effect runs
MountEffects(store, s) == PersistFlag(PersistToken(PersistView(store, s), s), s)

\* a later render: an effect runs when its dependency changed
PersistEffectsSkipped(store, old, new) == store
PersistEffects(store, old, new) ==
  LET s1 == IF new.view # old.view THEN PersistView(store, new) ELSE store
      s2 == IF new.token # old.token THEN PersistToken(s1, new) ELSE s1
  IN IF new.flag # old.flag THEN PersistFlag(s2, new) ELSE s2

\* lines 40-44
clearAppState(store) == EmptyStorage

\* lines 5-19: the initial state read from localStorage
Rehydrate(store) ==
  [view  |-> Or(store.currentView, "welcome"),
   token |-> store.adminToken,
   flag  |-> IF ~Falsy(store.adminToken) THEN TRUE
             ELSE store.isAdminAuthenticated = "true"]

----------------------------------------------------------------------------
(* Rendering (App.tsx renderCurrentView, AppPage) *)

\* App.tsx lines 23-63: AppPage is on screen
AppPageRendered == ~isAdminAuthenticated /\ currentView = "app"
\* App.tsx lines 23-50: WelcomePage is on screen
WelcomePageRendered == ~isAdminAuthenticated /\ currentView = "welcome"
\* App.tsx lines 23-38 and 65-72: AdminPage is on screen
AdminPageRendered ==
  \/ isAdminAuthenticated /\ ~loading /\ Falsy(error)
  \/ ~isAdminAuthenticated /\ currentView = "admin"

\* AppPage line 184: disabled={generating || !formData.adText.trim() || formData.outputs.length === 0}
GenerateDisabledWhileGenerating == generating
GenerateDisabledWhileEmpty ==
  Trim(formData.adText) = "" \/ Len(formData.outputs) = 0
GenerateDisabled ==
  generating \/ Trim(formData.adText) = "" \/ Len(formData.outputs) = 0

----------------------------------------------------------------------------
(* Invocations of handleGenerate *)

\* pc: "fetch"   awaiting the generation request (lines 65 / 71)
\*     "history" awaiting addGenerationHistory (line 120 on path "try", 170 on "catch")
\*     "done"    returned
\* form, history: appState.formData and apiData.generationHistory of the render whose
\*     callback was invoked (the closure of useCallback)
\* posted: the entries handed to POST /generation-history, in order
\* writes: the outcome of each finished history write
\* rejected: the promise of handleGenerate rejected
GenCall(form, history) ==
  [pc |-> "fetch", form |-> form, history |-> history,
   request |-> GenerationRequest(form), reply |-> NoReply, path |-> "try",
   posted |-> <<>>, writes |-> <<>>, rejected |-> FALSE]

Live(calls) == SelectSeq(calls, LAMBDA c : c.pc # "done")

\* line 31: setGenerating(true) is the first statement of the handler
GeneratingAtStartUnset == generating
GeneratingAtStart == TRUE

\* lines 30 and 188: appState inside the callback is the object of the render in
\* which the button was clicked, so appState.formData read after an await (lines
\* 112-115, 162-165) is the form of the invocation, not the form now on screen
CapturedFormIsCurrent(form) == formData
CapturedForm(form) == form

\* lines 30-85: setGenerating(true), build and send the request
HandleGenerate ==
  /\ NoAlert
  /\ UNCHANGED <<sessVars, cacheVars>>
  /\ AppPageRendered
  /\ ~GenerateDisabled
  /\ Len(generationHistory) < MaxHistory
  /\ generating' = GeneratingAtStart
  /\ genCalls' = Append(Live(genCalls), GenCall(formData, generationHistory))
  /\ UNCHANGED <<formData, result, generationHistory>>
  /\ UNCHANGED <<appVars, fbVars>>

\* lines 127-152 / 176-184 and 185-187: setResult, then the finally block
Finish(i, c) ==
  /\ result' = IF c.path = "try" THEN SuccessResult(c.reply.body)
                                 ELSE CatchResult(CapturedForm(c.form), c.reply)
  /\ generating' = GeneratingAfter(c.path)
  /\ genCalls' = [genCalls EXCEPT ![i] = [c EXCEPT !.pc = "done"]]

\* lines 107-120 / 158-170: build the entry of the path and call addGenerationHistory,
\* which sends the POST and is awaited
EnterHistory(i, c, path) ==
  IF WritesHistory(adminToken)
    THEN /\ genCalls' = [genCalls EXCEPT ![i] =
                [c EXCEPT !.pc = "history", !.path = path,
                          !.posted = Append(@, WithId(HistoryEntry(CapturedForm(c.form), path),
                                                       c.history))]]
         /\ UNCHANGED <<result, generating>>
    ELSE Finish(i, [c EXCEPT !.path = path])

\* lines 87-120 and 153-170: the generation request settles with reply
GenerateSettles(i, reply) ==
  /\ NoAlert
  /\ UNCHANGED <<sessVars, cacheVars>>
  /\ i \in 1..Len(genCalls)
  /\ genCalls[i].pc = "fetch"
  /\ EnterHistory(i, [genCalls[i] EXCEPT !.reply = reply],
                  IF ResponseThrows(reply) THEN "catch" ELSE "try")
  /\ UNCHANGED <<formData, generationHistory>>
  /\ UNCHANGED <<appVars, fbVars>>

\* useApiData lines 83-96 and handleGenerate lines 119-125 / 169-174: the history POST
\* settles; on success the entry is appended to the current list
HistorySettles(i, ok) ==
  /\ NoAlert
  /\ UNCHANGED <<sessVars, cacheVars>>
  /\ i \in 1..Len(genCalls)
  /\ genCalls[i].pc = "history"
  /\ LET c == [genCalls[i] EXCEPT !.writes = Append(@, ok)]
         entry == c.posted[Len(c.posted)]
     IN /\ generationHistory' = IF ok THEN Append(generationHistory, entry)
                                      ELSE generationHistory
        /\ IF ok \/ SwallowsHistoryError(c.path)
             THEN Finish(i, c)
             ELSE IF c.path = "try"
               \* the error reaches the outer catch (line 153)
               THEN EnterHistory(i, c, "catch")
               \* the error leaves the catch block: only the finally block runs
               ELSE /\ genCalls' = [genCalls EXCEPT ![i] =
                                      [c EXCEPT !.pc = "done", !.rejected = TRUE]]
                    /\ generating' = GeneratingAfter(c.path)
                    /\ UNCHANGED result
  /\ UNCHANGED formData
  /\ UNCHANGED <<appVars, fbVars>>

\* WelcomePage onGetStartedClick (App.tsx line 48)
GetStarted ==
  /\ NoAlert
  /\ storage' = PersistEffects(storage, Session, [Session EXCEPT !.view = "app"])
  /\ UNCHANGED <<showAdminLogin, adminCredentials, loginCalls>>
  /\ UNCHANGED cacheVars
  /\ WelcomePageRendered
  /\ currentView' = "app"
  /\ UNCHANGED <<isAdminAuthenticated, adminToken>>
  /\ UNCHANGED <<genVars, fbVars>>

\* AppPage onBackToWelcome (App.tsx line 60)
BackToWelcome ==
  /\ NoAlert
  /\ storage' = PersistEffects(storage, Session, [Session EXCEPT !.view = "welcome"])
  /\ UNCHANGED <<showAdminLogin, adminCredentials, loginCalls>>
  /\ UNCHANGED cacheVars
  /\ AppPageRendered
  /\ currentView' = "welcome"
  /\ UNCHANGED <<isAdminAuthenticated, adminToken>>
  /\ UNCHANGED <<genVars, fbVars>>

----------------------------------------------------------------------------
(* The state after construction, with empty durable storage *)

InitState ==
  /\ currentView = "welcome"
  /\ isAdminAuthenticated = FALSE
  /\ adminToken = Null
  /\ formData = InitialFormData
  /\ generating = FALSE
  /\ result = NoResult
  /\ showFeedbackModal = FALSE
  /\ feedbackType = Null
  /\ feedback = InitialFeedback
  /\ generationHistory = <<>>
  /\ feedbackList = <<>>
  /\ genCalls = <<>>
  /\ fbCalls = <<>>
  /\ dlCalls = <<>>
  /\ alertDialog = Null
  /\ showAdminLogin = FALSE
  /\ adminCredentials = InitialCredentials
  /\ storage = MountEffects(EmptyStorage, Session)
  /\ loginCalls = <<>>
  /\ loading = FALSE
  /\ error = Null
  /\ loads = <<>>

----------------------------------------------------------------------------
(* Generation cycles: the form is the input of the cycle, any form the controls *)
(* of AppPage can produce                                                       *)

Init ==
  /\ formData \in Forms
  /\ currentView = "welcome"
  /\ isAdminAuthenticated = FALSE
  /\ adminToken = Null
  /\ generating = FALSE
  /\ result = NoResult
  /\ showFeedbackModal = FALSE
  /\ feedbackType = Null
  /\ feedback = InitialFeedback
  /\ generationHistory = <<>>
  /\ feedbackList = <<>>
  /\ genCalls = <<>>
  /\ fbCalls = <<>>
  /\ dlCalls = <<>>
  /\ alertDialog = Null
  /\ showAdminLogin = FALSE
  /\ adminCredentials = InitialCredentials
  /\ storage = MountEffects(EmptyStorage, Session)
  /\ loginCalls = <<>>
  /\ loading = FALSE
  /\ error = Null
  /\ loads = <<>>

Next ==
  \/ GetStarted
  \/ BackToWelcome
  \/ HandleGenerate
  \/ \E i \in 1..Len(genCalls), reply \in Replies : GenerateSettles(i, reply)
  \/ \E i \in 1..Len(genCalls), ok \in BOOLEAN : HistorySettles(i, ok)

Spec == Init /\ [][Next]_vars

\* every issued request eventually resolves or rejects
FairSpec ==
  /\ Spec
  /\ WF_vars(\E i \in 1..Len(genCalls), reply \in Replies : GenerateSettles(i, reply))
  /\ WF_vars(\E i \in 1..Len(genCalls), ok \in BOOLEAN : HistorySettles(i, ok))

----------------------------------------------------------------------------
(* useFeedbackHandler: input domains *)

Emails == {"", "user@example.com"}
Messages == {"", "Great ads"}
\* FeedbackModal: the star buttons [1, 2, 3, 4, 5]; the model clicks two of them
Ratings == {2, 5}

\* the tags the buttons of AppPage pass to handleActionClick
UiActionTags == {"copy", "download-poster", "download-video"}
\* handleActionClick takes any string (type: string, stored with "as any")
ActionTags == UiActionTags \cup {"", "share", "constructor"}

\* the results handleGenerate can have set
Results ==
  { NoResult, FallbackResult,
    SuccessResult(Body("Rewritten ad", "Poster prompt", "/static/posters/poster_1.png",
                       "Video script", "/static/videos/ad_1.gif", "ad_1.gif",
                       "{text: 0.9}", "{text: ok}")) }

\* appState.result?.field
ResultField(f) == IF result = NoResult THEN Undefined ELSE result[f]

----------------------------------------------------------------------------
(* submitFeedback: the pieces of the handler *)

\* line 120: !appState.feedback.email || !appState.feedback.message
FeedbackIncompleteEmailOnly(draft) == Falsy(draft.email)
FeedbackIncomplete(draft) == Falsy(draft.email) \/ Falsy(draft.message)

\* lines 125-129: the own properties of the object literal actionMap
actionMapKeys == {"copy", "download-poster", "download-video"}
\* property names every object literal inherits from Object.prototype
ObjectPrototypeKeys ==
  {"constructor", "toString", "valueOf", "hasOwnProperty", "isPrototypeOf",
   "propertyIsEnumerable", "toLocaleString", "__proto__"}
\* the value of an inherited property: a function or object, truthy and not a label
InheritedValue == "<inherited from Object.prototype>"

\* actionMap[key]: an own property, else one found on the prototype chain, else undefined
actionMap(key) ==
  CASE key = "copy"                 -> "Copied Text"
    [] key = "download-poster"      -> "Downloaded Poster"
    [] key = "download-video"       -> "Downloaded Video"
    [] key \in ObjectPrototypeKeys  -> InheritedValue
    [] OTHER                        -> Undefined

\* line 136: actionMap[appState.feedbackType || ''] || 'Unknown Action'
ActionLabel(type) == Or(actionMap(Or(type, "")), "Unknown Action")

\* lines 131-139: newFeedback
NewFeedback(draft, type, form) ==
  [id |-> 0, email |-> draft.email, message |-> draft.message, rating |-> draft.rating,
   action |-> ActionLabel(type), platform |-> form.platform]

\* lines 143-153: the lines after the try/catch run only when addFeedback resolved
ClosesModalAlways(ok) == TRUE
ClosesModalAfter(ok) == ok

\* line 153: the draft after a successful submission
ResetKeepsRating == [email |-> "", message |-> "", rating |-> feedback.rating]
ResetFeedback == [email |-> "", message |-> "", rating |-> 5]

\* the alert() messages of the hook
AlertFillIn == "Please fill in all fields"
AlertThanks == "Thank you for your feedback!"
AlertUnable == "Unable to record feedback. Please try again."
AlertPosterUnavailable == "Poster file is not available yet. Please try again shortly."
AlertDownloadFailed == "Download failed. Please check the console for details."
AlertVideoUnavailable == "Video file is not available yet. Please try again once the GIF is ready."
AlertVideoFailed == "Video download failed. Please check the console for details."

\* the sequence without its i-th element
RemoveAt(seq, i) == [k \in 1..(Len(seq) - 1) |-> IF k < i THEN seq[k] ELSE seq[k + 1]]

----------------------------------------------------------------------------
(* FeedbackModal: the controls of the open modal *)

\* handleEmailChange
SetFeedbackEmail(e) ==
  /\ NoAlert
  /\ UNCHANGED <<sessVars, cacheVars>>
  /\ showFeedbackModal
  /\ feedback' = [feedback EXCEPT !.email = e]
  /\ UNCHANGED <<showFeedbackModal, feedbackType, feedbackList, fbCalls, dlCalls, alertDialog>>
  /\ UNCHANGED <<appVars, genVars>>

\* handleMessageChange
SetFeedbackMessage(m) ==
  /\ NoAlert
  /\ UNCHANGED <<sessVars, cacheVars>>
  /\ showFeedbackModal
  /\ feedback' = [feedback EXCEPT !.message = m]
  /\ UNCHANGED <<showFeedbackModal, feedbackType, feedbackList, fbCalls, dlCalls, alertDialog>>
  /\ UNCHANGED <<appVars, genVars>>

\* handleRatingChange
SetFeedbackRating(r) ==
  /\ NoAlert
  /\ UNCHANGED <<sessVars, cacheVars>>
  /\ showFeedbackModal
  /\ feedback' = [feedback EXCEPT !.rating = r]
  /\ UNCHANGED <<showFeedbackModal, feedbackType, feedbackList, fbCalls, dlCalls, alertDialog>>
  /\ UNCHANGED <<appVars, genVars>>

\* onClose (App.tsx line 93)
CloseFeedbackModal ==
  /\ NoAlert
  /\ UNCHANGED <<sessVars, cacheVars>>
  /\ showFeedbackModal
  /\ showFeedbackModal' = FALSE
  /\ UNCHANGED <<feedbackType, feedback, feedbackList, fbCalls, dlCalls, alertDialog>>
  /\ UNCHANGED <<appVars, genVars>>

\* the user dismisses the alert() dialog
DismissAlert ==
  /\ alertDialog # Null
  /\ UNCHANGED <<sessVars, cacheVars>>
  /\ alertDialog' = Null
  /\ UNCHANGED <<showFeedbackModal, feedbackType, feedback, feedbackList, fbCalls, dlCalls>>
  /\ UNCHANGED <<appVars, genVars>>

----------------------------------------------------------------------------
(* submitFeedback and addFeedback *)

\* useFeedbackHandler lines 119-143 and useApiData lines 100-111: the Submit button of
\* the open modal. An incomplete draft is rejected with an alert; otherwise the
\* record gets its id from the feedbackList of the caller's render and is POSTed.
SubmitFeedback ==
  /\ NoAlert
  /\ UNCHANGED <<sessVars, cacheVars>>
  /\ showFeedbackModal
  /\ IF FeedbackIncomplete(feedback)
       THEN /\ alertDialog' = AlertFillIn
            /\ UNCHANGED fbCalls
       ELSE /\ Len(feedbackList) + Len(fbCalls) < MaxFeedback
            /\ fbCalls' = Append(fbCalls,
                 [entry |-> WithId(NewFeedback(feedback, feedbackType, formData), feedbackList)])
            /\ UNCHANGED alertDialog
  /\ UNCHANGED <<showFeedbackModal, feedbackType, feedback, feedbackList, dlCalls>>
  /\ UNCHANGED <<appVars, genVars>>

\* useApiData lines 105-118 and useFeedbackHandler lines 143-153: the feedback POST
\* settles. On success the record is appended to the current list, the modal is
\* closed and the draft reset; on failure only the alert is shown.
AddFeedbackSettles(i, ok) ==
  /\ NoAlert
  /\ UNCHANGED <<sessVars, cacheVars>>
  /\ i \in 1..Len(fbCalls)
  /\ fbCalls' = RemoveAt(fbCalls, i)
  /\ feedbackList' = IF ok THEN Append(feedbackList, fbCalls[i].entry) ELSE feedbackList
  /\ alertDialog' = IF ok THEN AlertThanks ELSE AlertUnable
  /\ IF ClosesModalAfter(ok)
       THEN /\ showFeedbackModal' = FALSE
            /\ feedback' = ResetFeedback
       ELSE UNCHANGED <<showFeedbackModal, feedback>>
  /\ UNCHANGED <<feedbackType, dlCalls>>
  /\ UNCHANGED <<appVars, genVars>>

----------------------------------------------------------------------------
(* handleActionClick and downloadAsset *)

\* lines 43-56 on the asset URLs of the model: the last segment of the URL's path
deriveFilename(url, fallback) ==
  CASE url = "http://localhost:8000/static/posters/poster_1.png" -> "poster_1.png"
    [] url = "http://localhost:8000/static/videos/ad_1.gif"      -> "ad_1.gif"
    [] url = "http://localhost:8000/static/videos/ad_2.gif"      -> "ad_2.gif"
    [] url = "https://cdn.example.com/poster.png"                -> "poster.png"
    [] url = fallbackPosterPreview                               -> "ffffff"
    [] OTHER                                                      -> fallback

\* an invocation awaiting downloadAsset (lines 71 / 101)
Download(type, url, filename) == [type |-> type, url |-> url, filename |-> filename]

\* line 85: the video branch is entered for the tag alone; the asset reference is
\* checked inside the branch (line 86)
IsVideoDownloadWithAsset(type) ==
  type = "download-video" /\ ~Falsy(ResultField("videoUrl"))
IsVideoDownload(type) == type = "download-video"

\* lines 58-117
HandleActionClick(type) ==
  /\ NoAlert
  /\ UNCHANGED <<sessVars, cacheVars>>
  /\ IF type = "download-poster" /\ ~Falsy(ResultField("poster_url"))
       THEN LET downloadUrl == resolveBackendUrl(result.poster_url) IN
            IF Falsy(downloadUrl)
              THEN /\ alertDialog' = AlertPosterUnavailable
                   /\ UNCHANGED <<feedbackType, showFeedbackModal, dlCalls>>
              ELSE /\ Len(dlCalls) < MaxDownloads
                   /\ dlCalls' = Append(dlCalls,
                        Download(type, downloadUrl, deriveFilename(downloadUrl, "generated-poster.png")))
                   /\ UNCHANGED <<feedbackType, showFeedbackModal, alertDialog>>
       ELSE IF IsVideoDownload(type)
         THEN IF Falsy(ResultField("videoUrl"))
           THEN /\ alertDialog' = AlertVideoUnavailable
                /\ UNCHANGED <<feedbackType, showFeedbackModal, dlCalls>>
           ELSE LET downloadUrl == resolveBackendUrl(result.videoUrl) IN
                IF Falsy(downloadUrl)
                  THEN /\ alertDialog' = AlertVideoUnavailable
                       /\ UNCHANGED <<feedbackType, showFeedbackModal, dlCalls>>
                  ELSE /\ Len(dlCalls) < MaxDownloads
                       /\ dlCalls' = Append(dlCalls,
                            Download(type, downloadUrl,
                                     Or(result.videoFilename,
                                        deriveFilename(downloadUrl, "generated-video.gif"))))
                       /\ UNCHANGED <<feedbackType, showFeedbackModal, alertDialog>>
         ELSE /\ feedbackType' = type
              /\ showFeedbackModal' = TRUE
              /\ UNCHANGED <<dlCalls, alertDialog>>
  /\ UNCHANGED <<feedback, feedbackList, fbCalls>>
  /\ UNCHANGED <<appVars, genVars>>

\* lines 71-77 / 101-106: the lines after await downloadAsset run only when it resolved
OpensModalAfterAnyDownload(ok) == TRUE
OpensModalAfterDownload(ok) == ok

\* lines 23-41 and 73-81 / 103-110: the asset request settles; after a download the
\* feedback modal opens with the tag of the action, after a failure an alert is shown
DownloadSettles(i, ok) ==
  /\ NoAlert
  /\ UNCHANGED <<sessVars, cacheVars>>
  /\ i \in 1..Len(dlCalls)
  /\ dlCalls' = RemoveAt(dlCalls, i)
  /\ IF OpensModalAfterDownload(ok)
       THEN /\ feedbackType' = dlCalls[i].type
            /\ showFeedbackModal' = TRUE
            /\ UNCHANGED alertDialog
       ELSE /\ alertDialog' = IF dlCalls[i].type = "download-poster"
                              THEN AlertDownloadFailed ELSE AlertVideoFailed
            /\ UNCHANGED <<feedbackType, showFeedbackModal>>
  /\ UNCHANGED <<feedback, feedbackList, fbCalls>>
  /\ UNCHANGED <<appVars, genVars>>

----------------------------------------------------------------------------
(* Feedback: the result on screen is an input *)

\* a form with which the result was generated
FeedbackForm ==
  [InitialFormData EXCEPT !.adText = "Try our app", !.outputs = <<"text", "poster", "video">>]

InitFeedback ==
  /\ formData = FeedbackForm
  /\ result \in Results
  /\ currentView = "app"
  /\ isAdminAuthenticated = FALSE
  /\ adminToken = Null
  /\ generating = FALSE
  /\ showFeedbackModal = FALSE
  /\ feedbackType = Null
  /\ feedback = InitialFeedback
  /\ generationHistory = <<>>
  /\ feedbackList = <<>>
  /\ genCalls = <<>>
  /\ fbCalls = <<>>
  /\ dlCalls = <<>>
  /\ alertDialog = Null
  /\ showAdminLogin = FALSE
  /\ adminCredentials = InitialCredentials
  /\ storage = MountEffects(EmptyStorage, Session)
  /\ loginCalls = <<>>
  /\ loading = FALSE
  /\ error = Null
  /\ loads = <<>>

NextFeedback ==
  \/ \E type \in UiActionTags : HandleActionClick(type)
  \/ \E i \in 1..Len(dlCalls), ok \in BOOLEAN : DownloadSettles(i, ok)
  \/ \E e \in Emails : SetFeedbackEmail(e)
  \/ \E m \in Messages : SetFeedbackMessage(m)
  \/ \E r \in Ratings : SetFeedbackRating(r)
  \/ CloseFeedbackModal
  \/ SubmitFeedback
  \/ \E i \in 1..Len(fbCalls), ok \in BOOLEAN : AddFeedbackSettles(i, ok)
  \/ DismissAlert

SpecFeedback == InitFeedback /\ [][NextFeedback]_vars

----------------------------------------------------------------------------
(* The action label: handleActionClick stores any tag, submitFeedback maps it *)

InitLabel ==
  /\ formData \in {[FeedbackForm EXCEPT !.platform = p] : p \in Platforms}
  /\ result = NoResult
  /\ currentView = "app"
  /\ isAdminAuthenticated = FALSE
  /\ adminToken = Null
  /\ generating = FALSE
  /\ showFeedbackModal = FALSE
  /\ feedbackType = Null
  /\ feedback = InitialFeedback
  /\ generationHistory = <<>>
  /\ feedbackList = <<>>
  /\ genCalls = <<>>
  /\ fbCalls = <<>>
  /\ dlCalls = <<>>
  /\ alertDialog = Null
  /\ showAdminLogin = FALSE
  /\ adminCredentials = InitialCredentials
  /\ storage = MountEffects(EmptyStorage, Session)
  /\ loginCalls = <<>>
  /\ loading = FALSE
  /\ error = Null
  /\ loads = <<>>

NextLabel ==
  \/ \E type \in ActionTags : HandleActionClick(type)
  \/ \E e \in Emails : SetFeedbackEmail(e)
  \/ \E m \in Messages : SetFeedbackMessage(m)
  \/ SubmitFeedback
  \/ \E i \in 1..Len(fbCalls), ok \in BOOLEAN : AddFeedbackSettles(i, ok)
  \/ DismissAlert

SpecLabel == InitLabel /\ [][NextLabel]_vars

----------------------------------------------------------------------------
(* useApiData: fetchData (mount) and refreshData *)

\* refreshData runs only while fewer than this many loads have a fetch in flight
MaxLoads == 2

\* the lists the backend may hold
ServerHistory ==
  {<<>>, <<[id |-> 1, platform |-> "Instagram", tone |-> "Professional",
            adText |-> "Try our app", outputs |-> "Text", status |-> "Completed"]>>}
ServerFeedback ==
  {<<>>, <<[id |-> 1, email |-> "ann@example.com", message |-> "Clear and quick",
            rating |-> 4, action |-> "Downloaded Poster", platform |-> "Instagram"]>>}
ServerLists(which) == IF which = "history" THEN ServerHistory ELSE ServerFeedback

\* kind: "network"    fetch rejects
\*       "http"       a response with this status; parsable: its body is JSON (data)
FetchReply(kind, status, parsable, data) ==
  [kind |-> kind, status |-> status, parsable |-> parsable, data |-> data]
FailedFetchReplies ==
  {FetchReply("network", 0, FALSE, <<>>), FetchReply("http", 401, TRUE, <<>>),
   FetchReply("http", 500, TRUE, <<>>), FetchReply("http", 200, FALSE, <<>>)}
FetchReplies(which) ==
  FailedFetchReplies \cup {FetchReply("http", 200, TRUE, d) : d \in ServerLists(which)}

\* lines 11-19 and 51-52 / 66-67: the message of the error thrown by publicFetch or
\* by response.json(), Null when the fetcher's try block completes
FetchErrorMessage(reply) ==
  IF reply.kind = "network" THEN "Failed to fetch"
  ELSE IF reply.status \notin 200..299 THEN "HTTP error! status: " \o ToString(reply.status)
  ELSE IF ~reply.parsable THEN "Unexpected end of JSON input"
  ELSE Null

\* lines 54-59 / 69-74: the error state after the catch block of a fetcher
FetcherError(which, message, current) ==
  IF message # "Unauthorized"
    THEN IF which = "history" THEN "Failed to fetch generation history"
                              ELSE "Failed to fetch feedback list"
    ELSE current

\* a run of fetchData / refreshData: the state of its two fetches, and whether
\* its Promise.all has settled (the finally block has run)
NewLoad == [history |-> "pending", feedback |-> "pending", joined |-> FALSE]
Pending(load) == load.history = "pending" \/ load.feedback = "pending"

\* lines 128 / 145: Promise.all settles at the first rejection, or when both fulfilled
PromiseAllSettles(load) ==
  \/ load.history = "failed" \/ load.feedback = "failed"
  \/ load.history = "ok" /\ load.feedback = "ok"

\* lines 140-145: refreshData
RefreshData ==
  /\ NoAlert
  /\ Len(loads) < MaxLoads
  /\ loading' = TRUE
  /\ error' = Null
  /\ loads' = Append(loads, NewLoad)
  /\ UNCHANGED <<appVars, genVars, fbVars, sessVars>>

\* lines 49-76 and 127-133 / 144-150: one fetch of a load settles with reply
FetchSettles(l, which, reply) ==
  /\ NoAlert
  /\ l \in 1..Len(loads)
  /\ loads[l][which] = "pending"
  /\ LET message == FetchErrorMessage(reply)
         failed == message # Null
         after == [loads[l] EXCEPT ![which] = IF failed THEN "failed" ELSE "ok"]
         joins == ~loads[l].joined /\ PromiseAllSettles(after)
         load == [after EXCEPT !.joined = @ \/ joins]
     IN /\ loads' = IF Pending(load) THEN [loads EXCEPT ![l] = load] ELSE RemoveAt(loads, l)
        /\ loading' = IF joins THEN FALSE ELSE loading
        /\ error' = IF failed THEN FetcherError(which, message, error) ELSE error
        /\ generationHistory' =
             IF ~failed /\ which = "history" THEN reply.data ELSE generationHistory
        /\ feedbackList' =
             IF ~failed /\ which = "feedback" THEN reply.data ELSE feedbackList
  /\ UNCHANGED <<formData, generating, result, genCalls>>
  /\ UNCHANGED <<showFeedbackModal, feedbackType, feedback, fbCalls, dlCalls, alertDialog>>
  /\ UNCHANGED <<appVars, sessVars>>

\* the state after the first render: fetchData has started
InitLoad ==
  /\ currentView = "welcome"
  /\ isAdminAuthenticated = FALSE
  /\ adminToken = Null
  /\ formData = InitialFormData
  /\ generating = FALSE
  /\ result = NoResult
  /\ showFeedbackModal = FALSE
  /\ feedbackType = Null
  /\ feedback = InitialFeedback
  /\ generationHistory = <<>>
  /\ feedbackList = <<>>
  /\ genCalls = <<>>
  /\ fbCalls = <<>>
  /\ dlCalls = <<>>
  /\ alertDialog = Null
  /\ showAdminLogin = FALSE
  /\ adminCredentials = InitialCredentials
  /\ storage = MountEffects(EmptyStorage, Session)
  /\ loginCalls = <<>>
  /\ loading = TRUE
  /\ error = Null
  /\ loads = <<NewLoad>>

NextLoad ==
  \/ RefreshData
  \/ \E l \in 1..Len(loads), which \in {"history", "feedback"} :
       \E reply \in FetchReplies(which) : FetchSettles(l, which, reply)

SpecLoad == InitLoad /\ [][NextLoad]_vars

----------------------------------------------------------------------------
(* useAdminAuth: handleAdminLogin / handleAdminLogout *)

\* handleAdminLogin is started only while fewer than this many are awaiting the reply
MaxLogins == 1

\* AdminLogin: what the user types
Usernames == {"", "admin"}
Passwords == {"admin", "guess"}
\* bearer tokens the backend issues
Tokens == {"tok-1", "tok-2"}

\* kind: "network"  fetch rejects
\*       "http"     a response with this status
\* body: "unparsable" not JSON, "null" the JSON value null, "object" a JSON object
\*       whose access_token is as given (Undefined: the property is missing)
LoginReply(kind, status, body, token) ==
  [kind |-> kind, status |-> status, body |-> body, access_token |-> token]
NoLoginReply == LoginReply("none", 0, "null", Undefined)
LoginReplies ==
  {LoginReply("network", 0, "null", Undefined),
   LoginReply("http", 401, "object", Undefined),
   LoginReply("http", 200, "unparsable", Undefined),
   LoginReply("http", 200, "null", Undefined)}
    \cup {LoginReply("http", 200, "object", t) : t \in Tokens \cup {Undefined}}

\* lines 10-22: does the try block throw before it reaches setAdminToken?
\* fetch rejects; !response.ok throws; response.json() rejects; data.access_token of null throws
LoginThrowsOnlyNetwork(reply) == reply.kind = "network"
LoginThrows(reply) ==
  \/ reply.kind = "network"
  \/ reply.status \notin 200..299
  \/ reply.body # "object"

\* lines 24-26: the session after a successful login
SessionAfterLoginKeepsView(s, token) == [s EXCEPT !.token = token, !.flag = TRUE]
SessionAfterLogin(s, token) == [view |-> "admin", token |-> token, flag |-> TRUE]

\* useAppState lines 47-49
resetToWelcome(s) == [view |-> "welcome", token |-> Null, flag |-> FALSE]

\* useAdminAuth lines 36-38: setAdminToken(null), setIsAdminAuthenticated(false), resetToWelcome()
SessionAfterLogoutKeepsView(s) == [s EXCEPT !.token = Null, !.flag = FALSE]
SessionAfterLogoutKeepsFlag(s) == [s EXCEPT !.view = "welcome", !.token = Null]
SessionAfterLogout(s) == resetToWelcome([s EXCEPT !.token = Null, !.flag = FALSE])

AlertInvalidCredentials == "Invalid credentials. Please try again."

\* pc: "fetch" awaiting the login request (line 10), "done" returned
LoginCall(credentials) ==
  [pc |-> "fetch", username |-> credentials.username, password |-> credentials.password,
   reply |-> NoLoginReply]

\* WelcomePage onAdminClick (App.tsx line 47)
OpenAdminLogin ==
  /\ NoAlert
  /\ WelcomePageRendered
  /\ showAdminLogin' = TRUE
  /\ UNCHANGED <<adminCredentials, storage, loginCalls>>
  /\ UNCHANGED <<appVars, genVars, fbVars, cacheVars>>

\* AdminLogin onClose (App.tsx line 85)
CloseAdminLogin ==
  /\ NoAlert
  /\ showAdminLogin
  /\ showAdminLogin' = FALSE
  /\ UNCHANGED <<adminCredentials, storage, loginCalls>>
  /\ UNCHANGED <<appVars, genVars, fbVars, cacheVars>>

\* AdminLogin handleUsernameChange
SetUsername(u) ==
  /\ NoAlert
  /\ showAdminLogin
  /\ adminCredentials' = [adminCredentials EXCEPT !.username = u]
  /\ UNCHANGED <<showAdminLogin, storage, loginCalls>>
  /\ UNCHANGED <<appVars, genVars, fbVars, cacheVars>>

\* AdminLogin handlePasswordChange
SetPassword(pw) ==
  /\ NoAlert
  /\ showAdminLogin
  /\ adminCredentials' = [adminCredentials EXCEPT !.password = pw]
  /\ UNCHANGED <<showAdminLogin, storage, loginCalls>>
  /\ UNCHANGED <<appVars, genVars, fbVars, cacheVars>>

\* useAdminAuth lines 6-16: the Login button (or Enter) of the open modal
HandleAdminLogin ==
  /\ NoAlert
  /\ showAdminLogin
  /\ Len(Live(loginCalls)) < MaxLogins
  /\ loginCalls' = Append(Live(loginCalls), LoginCall(adminCredentials))
  /\ UNCHANGED <<showAdminLogin, adminCredentials, storage>>
  /\ UNCHANGED <<appVars, genVars, fbVars, cacheVars>>

\* useAdminAuth lines 18-32 and the persistence effects: the login request settles
LoginSettles(i, reply) ==
  /\ NoAlert
  /\ i \in 1..Len(loginCalls)
  /\ loginCalls[i].pc = "fetch"
  /\ loginCalls' = [loginCalls EXCEPT ![i] = [@ EXCEPT !.pc = "done", !.reply = reply]]
  /\ IF LoginThrows(reply)
       THEN /\ alertDialog' = AlertInvalidCredentials
            /\ UNCHANGED <<appVars, showAdminLogin, adminCredentials, storage>>
       ELSE LET new == SessionAfterLogin(Session, reply.access_token) IN
            /\ adminToken' = new.token
            /\ isAdminAuthenticated' = new.flag
            /\ currentView' = new.view
            /\ showAdminLogin' = FALSE
            /\ adminCredentials' = [username |-> "", password |-> ""]
            /\ storage' = PersistEffects(storage, Session, new)
            /\ UNCHANGED alertDialog
  /\ UNCHANGED <<showFeedbackModal, feedbackType, feedback, feedbackList, fbCalls, dlCalls>>
  /\ UNCHANGED <<genVars, cacheVars>>

\* useAdminAuth lines 35-39, useAppState lines 40-51 and the persistence effects:
\* the Logout button of AdminPage
HandleAdminLogout ==
  /\ NoAlert
  /\ AdminPageRendered
  /\ LET new == SessionAfterLogout(Session) IN
     /\ adminToken' = new.token
     /\ isAdminAuthenticated' = new.flag
     /\ currentView' = new.view
     /\ storage' = PersistEffects(clearAppState(storage), Session, new)
  /\ UNCHANGED <<showAdminLogin, adminCredentials, loginCalls>>
  /\ UNCHANGED <<genVars, fbVars, cacheVars>>

\* the page is loaded again: useAppState lines 5-71 and useApiData lines 6-9 run
\* against the localStorage the last page left, then the effects of the first render
Reload ==
  LET s == Rehydrate(storage) IN
  /\ currentView' = s.view
  /\ adminToken' = s.token
  /\ isAdminAuthenticated' = s.flag
  /\ storage' = MountEffects(storage, s)
  /\ formData' = InitialFormData
  /\ generating' = FALSE
  /\ result' = NoResult
  /\ showFeedbackModal' = FALSE
  /\ feedbackType' = Null
  /\ feedback' = InitialFeedback
  /\ generationHistory' = <<>>
  /\ feedbackList' = <<>>
  /\ genCalls' = <<>>
  /\ fbCalls' = <<>>
  /\ dlCalls' = <<>>
  /\ alertDialog' = Null
  /\ showAdminLogin' = FALSE
  /\ adminCredentials' = InitialCredentials
  /\ loginCalls' = <<>>
  /\ loading' = TRUE
  /\ error' = Null
  /\ loads' = <<NewLoad>>

\* the replies of the list endpoints in the session runs
SessionFetchReplies(which) ==
  {FetchReply("http", 500, TRUE, <<>>), FetchReply("http", 200, TRUE, <<>>)}

NextSession ==
  \/ OpenAdminLogin
  \/ CloseAdminLogin
  \/ \E u \in Usernames : SetUsername(u)
  \/ \E pw \in Passwords : SetPassword(pw)
  \/ HandleAdminLogin
  \/ \E i \in 1..Len(loginCalls), reply \in LoginReplies : LoginSettles(i, reply)
  \/ HandleAdminLogout
  \/ GetStarted
  \/ BackToWelcome
  \/ Reload
  \/ \E l \in 1..Len(loads), which \in {"history", "feedback"} :
       \E reply \in SessionFetchReplies(which) : FetchSettles(l, which, reply)
  \/ DismissAlert

SpecSession == InitLoad /\ [][NextSession]_vars

----------------------------------------------------------------------------
(* AppPage: the controls of the form *)

\* the textarea's onChange
SetAdText(a) ==
  /\ NoAlert
  /\ AppPageRendered
  /\ formData' = [formData EXCEPT !.adText = a]
  /\ UNCHANGED <<generating, result, generationHistory, genCalls>>
  /\ UNCHANGED <<appVars, fbVars, sessVars, cacheVars>>

\* the platform select's onChange
SetPlatform(pl) ==
  /\ NoAlert
  /\ AppPageRendered
  /\ formData' = [formData EXCEPT !.platform = pl]
  /\ UNCHANGED <<generating, result, generationHistory, genCalls>>
  /\ UNCHANGED <<appVars, fbVars, sessVars, cacheVars>>

\* outputs.filter(o => o !== output)
Without(seq, x) == SelectSeq(seq, LAMBDA o : o # x)
\* outputs.includes(output)
Includes(seq, x) == \E k \in 1..Len(seq) : seq[k] = x

\* AppPage lines 79-86
toggleOutput(outputs, output) ==
  IF Includes(outputs, output) THEN Without(outputs, output) ELSE Append(outputs, output)

ToggleOutput(o) ==
  /\ NoAlert
  /\ AppPageRendered
  /\ formData' = [formData EXCEPT !.outputs = toggleOutput(@, o)]
  /\ UNCHANGED <<generating, result, generationHistory, genCalls>>
  /\ UNCHANGED <<appVars, fbVars, sessVars, cacheVars>>

\* what the clicks of the runs below type and toggle
ClickAdTexts == {"   ", "Try our app"}
ClickOutputs == {"text", "video"}
\* the replies of the generation endpoint in the runs below
ClickReplies ==
  {Reply("network", EmptyBody),
   Reply("ok", Body("Rewritten ad", "Poster prompt", "/static/posters/poster_1.png",
                    "Video script", "/static/videos/ad_1.gif", "ad_1.gif",
                    "{text: 0.9}", "{text: ok}"))}

\* Clicks, form edits and view changes, from the state after construction
NextClicks ==
  \/ GetStarted
  \/ BackToWelcome
  \/ \E a \in ClickAdTexts : SetAdText(a)
  \/ \E pl \in Platforms : SetPlatform(pl)
  \/ \E o \in ClickOutputs : ToggleOutput(o)
  \/ HandleGenerate
  \/ \E i \in 1..Len(genCalls), reply \in ClickReplies : GenerateSettles(i, reply)
  \/ \E i \in 1..Len(genCalls), ok \in BOOLEAN : HistorySettles(i, ok)

SpecClicks == InitState /\ [][NextClicks]_vars

----------------------------------------------------------------------------
(* The two writes of useApiData, each started by its handler *)

InitWrites ==
  /\ formData = FeedbackForm
  /\ currentView = "app"
  /\ isAdminAuthenticated = FALSE
  /\ adminToken = Null
  /\ generating = FALSE
  /\ result = NoResult
  /\ showFeedbackModal = FALSE
  /\ feedbackType = Null
  /\ feedback = InitialFeedback
  /\ generationHistory = <<>>
  /\ feedbackList = <<>>
  /\ genCalls = <<>>
  /\ fbCalls = <<>>
  /\ dlCalls = <<>>
  /\ alertDialog = Null
  /\ showAdminLogin = FALSE
  /\ adminCredentials = InitialCredentials
  /\ storage = MountEffects(EmptyStorage, Session)
  /\ loginCalls = <<>>
  /\ loading = FALSE
  /\ error = Null
  /\ loads = <<>>

NextWrites ==
  \/ HandleGenerate
  \/ \E i \in 1..Len(genCalls), reply \in ClickReplies : GenerateSettles(i, reply)
  \/ \E i \in 1..Len(genCalls), ok \in BOOLEAN : HistorySettles(i, ok)
  \/ HandleActionClick("copy")
  \/ \E e \in Emails : SetFeedbackEmail(e)
  \/ \E m \in Messages : SetFeedbackMessage(m)
  \/ SubmitFeedback
  \/ \E i \in 1..Len(fbCalls), ok \in BOOLEAN : AddFeedbackSettles(i, ok)
  \/ DismissAlert

SpecWrites == InitWrites /\ [][NextWrites]_vars

----------------------------------------------------------------------------
(* The data cache: the list fetches of useApiData interleaved with its two writes.
   refreshData is exported by the hook and called by no component: the only load
   of a page is the one of the mount effect. *)

\* the app page with a filled form, while the lists of the mount fetch are awaited
InitCache ==
  /\ formData = FeedbackForm
  /\ currentView = "app"
  /\ isAdminAuthenticated = FALSE
  /\ adminToken = Null
  /\ generating = FALSE
  /\ result = NoResult
  /\ showFeedbackModal = FALSE
  /\ feedbackType = Null
  /\ feedback = InitialFeedback
  /\ generationHistory = <<>>
  /\ feedbackList = <<>>
  /\ genCalls = <<>>
  /\ fbCalls = <<>>
  /\ dlCalls = <<>>
  /\ alertDialog = Null
  /\ showAdminLogin = FALSE
  /\ adminCredentials = InitialCredentials
  /\ storage = MountEffects(EmptyStorage, Session)
  /\ loginCalls = <<>>
  /\ loading = TRUE
  /\ error = Null
  /\ loads = <<NewLoad>>

\* the replies of the list endpoints: one failure, and each list of the backend
CacheFetchReplies(which) ==
  {FetchReply("http", 500, TRUE, <<>>)} \cup
  {FetchReply("http", 200, TRUE, d) : d \in ServerLists(which)}

NextCache ==
  \/ HandleGenerate
  \/ \E i \in 1..Len(genCalls), reply \in ClickReplies : GenerateSettles(i, reply)
  \/ \E i \in 1..Len(genCalls), ok \in BOOLEAN : HistorySettles(i, ok)
  \/ HandleActionClick("copy")
  \/ \E e \in Emails : SetFeedbackEmail(e)
  \/ \E m \in Messages : SetFeedbackMessage(m)
  \/ SubmitFeedback
  \/ \E i \in 1..Len(fbCalls), ok \in BOOLEAN : AddFeedbackSettles(i, ok)
  \/ DismissAlert
  \/ \E l \in 1..Len(loads), which \in {"history", "feedback"} :
       \E reply \in CacheFetchReplies(which) : FetchSettles(l, which, reply)

SpecCache == InitCache /\ [][NextCache]_vars

----------------------------------------------------------------------------
(* Generation cycles: properties *)

GenIdx == 1..Len(genCalls)
Done(i) == genCalls[i].pc = "done"
\* the kinds of reply on which the generation call throws
FailedKinds == {"network", "non2xx", "unparsable"}

\* C1: under FairSpec (every issued request settles), a started handleGenerate leads
\* to a state where generating is false and result is non-null, whatever the
\* backend's reply and whatever the outcome of the history write.
C1_GenerateTerminates ==
  (\E i \in GenIdx : ~Done(i)) ~> (generating = FALSE /\ result # NoResult)

\* a cycle whose generation request failed at the network and whose history write
\* failed too has finished with a result
C1_Witness ==
  \E i \in GenIdx :
    /\ Done(i) /\ genCalls[i].reply.kind = "network" /\ genCalls[i].writes = <<FALSE>>
    /\ generating = FALSE /\ result # NoResult

EmptyReplyDone(i) == Done(i) /\ genCalls[i].reply = Reply("ok", EmptyBody)

\* C3 as amended: after HTTP 200 with every content field empty, the result's
\* rewritten text, poster prompt and video script are the three fixed placeholder
\* strings, which are the very strings of the error-fallback payload, and the
\* history entry has status "Completed".
C3_EmptyReplyPlaceholders ==
  \A i \in GenIdx : EmptyReplyDone(i) =>
    /\ result.rewrittenText = fallbackText
    /\ result.posterUrl = fallbackPosterPrompt
    /\ result.videoScript = fallbackVideoScript
    /\ result.rewrittenText = FallbackResult.rewrittenText
    /\ result.posterUrl = FallbackResult.posterUrl
    /\ result.videoScript = FallbackResult.videoScript
    /\ Len(genCalls[i].posted) = 1
    /\ genCalls[i].posted[1].status = "Completed"

C3_Witness ==
  \E i \in GenIdx : EmptyReplyDone(i) /\ genCalls[i].writes = <<TRUE>>
                    /\ result.rewrittenText = fallbackText

\* C3 as stated: the three placeholder strings differ from those of the
\* error-fallback payload.
C3_Original ==
  \A i \in GenIdx : EmptyReplyDone(i) =>
    /\ result.rewrittenText # FallbackResult.rewrittenText
    /\ result.posterUrl # FallbackResult.posterUrl
    /\ result.videoScript # FallbackResult.videoScript
    /\ genCalls[i].posted[1].status = "Completed"

\* the cycle i whose generation request threw has finished
FailedDone(i) == Done(i) /\ genCalls[i].reply.kind \in FailedKinds \cup {"null"}

\* C4 as amended: after any exception of the generation request the result is one
\* fixed payload, the same for every form and every error: the fixed text, the
\* fixed poster prompt and placeholder poster URL, the fixed video script and no
\* video asset reference; and generating is false.
C4_FailureGivesCannedResult ==
  \A i \in GenIdx : FailedDone(i) =>
    /\ result = FallbackResult
    /\ result.rewrittenText = fallbackText
    /\ result.poster_url = fallbackPosterPreview
    /\ result.videoScript = fallbackVideoScript
    /\ result.videoUrl = Undefined
    /\ generating = FALSE

C4_Witness ==
  \E i \in GenIdx : FailedDone(i) /\ genCalls[i].reply.kind = "non2xx"
                    /\ genCalls[i].form.adText = "Try our app"
                    /\ genCalls[i].form.outputs = <<"text">>
                    /\ result.rewrittenText = fallbackText /\ generating = FALSE

\* C4 as stated: the canned payload carries a placeholder video reference.
C4_Original ==
  \A i \in GenIdx : FailedDone(i) =>
    /\ result.rewrittenText = fallbackText
    /\ result.poster_url = fallbackPosterPreview
    /\ result.videoUrl # Undefined
    /\ generating = FALSE

\* C5: a rejected history write changes nothing of the cycle's outcome: no
\* exception leaves handleGenerate, the result of a successful generation is the
\* one built from the backend's answer and not the canned payload, the result of
\* a failed generation is the canned payload, and generating is false.
C5_HistoryFailureIsSwallowed ==
  \A i \in GenIdx : (Done(i) /\ FALSE \in {genCalls[i].writes[k] : k \in 1..Len(genCalls[i].writes)}) =>
    LET c == genCalls[i] IN
    /\ ~c.rejected
    /\ generating = FALSE
    /\ c.reply.kind = "ok" =>
         /\ result = SuccessResult(c.reply.body)
         /\ result # FallbackResult
         /\ result.poster_url # fallbackPosterPreview
         /\ ~Falsy(c.reply.body.text) => result.rewrittenText = c.reply.body.text
    /\ c.reply.kind # "ok" => result = FallbackResult

C5_Witness ==
  \E i \in GenIdx :
    /\ Done(i) /\ genCalls[i].writes = <<FALSE>> /\ genCalls[i].reply.kind = "ok"
    /\ result.rewrittenText = "Rewritten ad" /\ ~generating

\* C6: every cycle calls addGenerationHistory exactly once: none before the
\* generation request settles, one from then on, and still one when the cycle has
\* finished, also when that write failed on the success path.
C6_OneHistoryWritePerCycle ==
  \A i \in GenIdx :
    LET c == genCalls[i] IN
    /\ c.pc = "fetch" => Len(c.posted) = 0
    /\ c.pc = "history" => Len(c.posted) = 1 /\ Len(c.writes) = 0
    /\ c.pc = "done" => Len(c.posted) = 1 /\ Len(c.writes) = 1

C6_Witness ==
  \E i \in GenIdx :
    /\ Done(i) /\ genCalls[i].path = "try" /\ genCalls[i].writes = <<FALSE>>
    /\ Len(genCalls[i].posted) = 1 /\ genCalls[i].posted[1].status = "Completed"

----------------------------------------------------------------------------
(* Feedback: properties *)

\* the draft has an empty email or an empty message
DraftIncomplete == feedback.email = "" \/ feedback.message = ""

\* C7: a submitFeedback on a draft with an empty email or an empty message issues
\* no request (addFeedback is not called), leaves the modal open and changes
\* neither the draft nor the local feedback list; and no step at all taken from
\* such a draft starts a feedback write.
C7_IncompleteDraftIsRejected ==
  [][ DraftIncomplete =>
        /\ Len(fbCalls') <= Len(fbCalls)
        /\ SubmitFeedback =>
             /\ showFeedbackModal /\ showFeedbackModal'
             /\ UNCHANGED <<feedback, feedbackList, fbCalls, dlCalls, genCalls>> ]_vars

\* the validation alert is on screen over an open modal whose draft has an email
\* but no message, and nothing was sent
C7_Witness ==
  /\ alertDialog = AlertFillIn
  /\ showFeedbackModal
  /\ feedback.email = "user@example.com" /\ feedback.message = ""
  /\ fbCalls = <<>> /\ feedbackList = <<>>

\* C8: when the addFeedback of a submitted draft (email and message non-empty)
\* succeeds, the modal is closed and the draft is {email: "", message: "",
\* rating: 5} afterwards, whatever the rating and the feedback type were.
C8_SuccessClosesAndResets ==
  [][ \A i \in 1..Len(fbCalls) :
        (fbCalls[i].entry.email # "" /\ fbCalls[i].entry.message # ""
           /\ AddFeedbackSettles(i, TRUE)) =>
          /\ showFeedbackModal' = FALSE
          /\ feedback' = [email |-> "", message |-> "", rating |-> 5] ]_vars

\* a draft rated 2 for a video download was saved: the modal is closed and the
\* draft is back at its default
C8_Witness ==
  /\ alertDialog = AlertThanks
  /\ ~showFeedbackModal
  /\ feedback = [email |-> "", message |-> "", rating |-> 5]
  /\ \E k \in 1..Len(feedbackList) :
       feedbackList[k].rating = 2 /\ feedbackList[k].action = "Downloaded Video"

\* C9: when the addFeedback of a submitted draft fails, that leaves the modal as it
\* was (open, when the user has not closed it), the draft as it was, and the
\* local feedback list as it was.
C9_FailureKeepsModalAndDraft ==
  [][ \A i \in 1..Len(fbCalls) :
        AddFeedbackSettles(i, FALSE) =>
          /\ showFeedbackModal' = showFeedbackModal
          /\ feedback' = feedback
          /\ feedbackList' = feedbackList ]_vars

\* the failure alert is on screen over the open modal, which still holds the
\* submitted draft, and nothing was added to the list
C9_Witness ==
  /\ alertDialog = AlertUnable
  /\ showFeedbackModal
  /\ feedback = [email |-> "user@example.com", message |-> "Great ads", rating |-> 2]
  /\ feedbackList = <<>> /\ fbCalls = <<>>

----------------------------------------------------------------------------
(* Session: properties *)

LoginIdx == 1..Len(loginCalls)
\* the reply is a failed login request: a network exception or a non-2xx response
LoginFailed(reply) == reply.kind = "network" \/ reply.status \notin 200..299
\* a finished handleAdminLogin that was answered 2xx with this token
LoggedInWith(i, token) ==
  /\ loginCalls[i].pc = "done"
  /\ loginCalls[i].reply.status = 200 /\ loginCalls[i].reply.body = "object"
  /\ loginCalls[i].reply.access_token = token

\* C11: after handleAdminLogout and the persistence effects of the render it causes,
\* the authenticated flag is false, the token is null, and the session read back
\* from localStorage has no token and the flag false.
C11_LogoutClearsSession ==
  [][ HandleAdminLogout =>
        /\ isAdminAuthenticated' = FALSE
        /\ adminToken' = Null
        /\ Rehydrate(storage').token = Null
        /\ Rehydrate(storage').flag = FALSE ]_vars

\* a login answered with tok-1 was followed by a logout: no session in memory,
\* none in localStorage
C11_Witness ==
  /\ \E i \in LoginIdx : LoggedInWith(i, "tok-1")
  /\ ~isAdminAuthenticated /\ adminToken = Null /\ currentView = "welcome"
  /\ Rehydrate(storage).token = Null /\ Rehydrate(storage).flag = FALSE

\* C12: once handleAdminLogout / resetToWelcome and the persistence effects it
\* triggers have run, localStorage holds no entry for the current view, the
\* authenticated flag or the token.
C12_ResetWipesStorage ==
  [][ HandleAdminLogout => storage' = EmptyStorage ]_vars

\* C13: in every reachable state the authenticated flag is true if and only if a
\* bearer token is present.
C13_FlagIffToken == isAdminAuthenticated <=> ~Falsy(adminToken)

\* C14: a login request that fails (network exception or non-2xx response) leaves
\* token, authenticated flag, current view, login-modal visibility, the credential
\* draft and localStorage as they were.
C14_FailedLoginChangesNothing ==
  [][ \A i \in LoginIdx, reply \in LoginReplies :
        (LoginFailed(reply) /\ LoginSettles(i, reply)) =>
          UNCHANGED <<adminToken, isAdminAuthenticated, currentView, showAdminLogin,
                      adminCredentials, storage>> ]_vars

\* the login with admin / guess was answered 401: the alert is on screen over the
\* open modal, which still holds the credentials, and there is no session
C14_Witness ==
  /\ alertDialog = AlertInvalidCredentials
  /\ \E i \in LoginIdx : loginCalls[i].pc = "done" /\ loginCalls[i].reply.status = 401
  /\ showAdminLogin
  /\ adminCredentials = [username |-> "admin", password |-> "guess"]
  /\ ~isAdminAuthenticated /\ adminToken = Null /\ storage.adminToken = Null

\* C15 (as amended): when the login request is answered 2xx with a JSON object,
\* then after handleAdminLogin the token is the object's access_token, the
\* authenticated flag is true, the view is admin, the login modal is closed, the
\* credential draft is empty, and the localStorage token entry is that token when
\* it is non-empty and absent otherwise.
C15_LoginStoresSession ==
  [][ \A i \in LoginIdx, reply \in LoginReplies :
        (~LoginFailed(reply) /\ reply.body = "object" /\ LoginSettles(i, reply)) =>
          /\ adminToken' = reply.access_token
          /\ isAdminAuthenticated' = TRUE
          /\ currentView' = "admin"
          /\ showAdminLogin' = FALSE
          /\ adminCredentials' = [username |-> "", password |-> ""]
          /\ storage'.adminToken =
               IF Falsy(reply.access_token) THEN Null ELSE reply.access_token ]_vars

\* the login was answered 2xx with tok-1: the session is in memory and in localStorage
C15_Witness ==
  /\ \E i \in LoginIdx : LoggedInWith(i, "tok-1")
  /\ adminToken = "tok-1" /\ isAdminAuthenticated /\ currentView = "admin"
  /\ ~showAdminLogin /\ adminCredentials = [username |-> "", password |-> ""]
  /\ storage.adminToken = "tok-1"

\* C15 as stated: every 2xx answer to the login request gives the session of the
\* returned token.
C15_Original ==
  [][ \A i \in LoginIdx, reply \in LoginReplies :
        (~LoginFailed(reply) /\ LoginSettles(i, reply)) =>
          /\ adminToken' = reply.access_token
          /\ isAdminAuthenticated' = TRUE
          /\ currentView' = "admin"
          /\ showAdminLogin' = FALSE
          /\ adminCredentials' = [username |-> "", password |-> ""]
          /\ storage'.adminToken = reply.access_token ]_vars

----------------------------------------------------------------------------
(* Data cache: properties *)

\* C17: a load whose finally block has run (loading cleared) has neither of its
\* two fetches in flight, also when one of them failed.
C17_LoadingClearedAfterJoin ==
  \A l \in 1..Len(loads) : loads[l].joined => ~Pending(loads[l])

\* C18: a list fetch answered 401 sets the error state to "Unauthorized"; any other
\* non-2xx answer sets a non-null error.
C18_UnauthorizedIsDistinguished ==
  [][ \A l \in 1..Len(loads), which \in {"history", "feedback"} :
        \A reply \in FailedFetchReplies :
          (reply.kind = "http" /\ reply.status \notin 200..299
             /\ FetchSettles(l, which, reply)) =>
            IF reply.status = 401 THEN error' = "Unauthorized" ELSE error' # Null ]_vars

C19_OneGenerationInFlight ==
  /\ Len(Live(genCalls)) <= 1
  /\ Len(Live(genCalls)) = 1 => generating

\* a second cycle is in flight after the first has finished, while the user has
\* gone back to the welcome page and the form no longer is the one submitted
C19_Witness ==
  /\ generating /\ currentView = "welcome"
  /\ \E i \in GenIdx :
       /\ ~Done(i)
       /\ Len(genCalls[i].history) = 1
       /\ formData # genCalls[i].form

----------------------------------------------------------------------------
(* Downloads: properties *)

\* C21: when the asset download of a download-poster or download-video action
\* fails, that step does not open the feedback modal, does not change the feedback
\* type, and writes no feedback or history record (none is sent, none is added).
C21_FailedDownloadHalts ==
  [][ \A i \in 1..Len(dlCalls) :
        DownloadSettles(i, FALSE) =>
          UNCHANGED <<showFeedbackModal, feedbackType, feedbackList, fbCalls,
                      generationHistory, genCalls>> ]_vars

\* the poster download failed: the alert is on screen, the modal is closed and no
\* tag is stored
C21_Witness ==
  /\ alertDialog = AlertDownloadFailed
  /\ ~showFeedbackModal /\ feedbackType = Null
  /\ dlCalls = <<>> /\ fbCalls = <<>> /\ feedbackList = <<>>

\* C22: handleActionClick("download-video") starts a download only when the result
\* has a video reference, and never opens the modal itself: the modal is opened
\* with that tag only by the step that ends a successful video download. Without
\* a result, or with a result that has no video reference, no request is issued
\* and the modal and the tag stay as they were.
C22_VideoGatedOnAsset ==
  [][ /\ HandleActionClick("download-video") =>
           /\ UNCHANGED <<showFeedbackModal, feedbackType>>
           /\ Falsy(ResultField("videoUrl")) => UNCHANGED dlCalls
           /\ dlCalls' # dlCalls =>
                dlCalls'[Len(dlCalls')].url = resolveBackendUrl(result.videoUrl)
      /\ (feedbackType' = "download-video" /\ feedbackType # "download-video") =>
           \E i \in 1..Len(dlCalls) :
             dlCalls[i].type = "download-video" /\ DownloadSettles(i, TRUE) ]_vars

\* after a Fallback generation the video click raised the alert: nothing was
\* requested and the modal is closed
C22_Witness ==
  /\ result = FallbackResult
  /\ alertDialog = AlertVideoUnavailable
  /\ dlCalls = <<>> /\ ~showFeedbackModal /\ feedbackType = Null

----------------------------------------------------------------------------
(* The data cache: properties *)

\* C23: when addFeedback succeeds, the new entry is the first element of the local
\* feedback list and the previous entries follow it in their previous order.
C23_NewFeedbackIsFirst ==
  [][ \A i \in 1..Len(fbCalls) :
        AddFeedbackSettles(i, TRUE) =>
          feedbackList' = <<fbCalls[i].entry>> \o feedbackList ]_vars

DistinctIds(list) ==
  \A j, k \in 1..Len(list) : j # k => list[j].id # list[k].id

\* C26: in every reachable state the identifiers of the local generation history
\* are pairwise distinct, and so are those of the local feedback list.
C26_IdsDistinct ==
  /\ DistinctIds(generationHistory)
  /\ DistinctIds(feedbackList)

----------------------------------------------------------------------------
(* Generation cycles: the form while a cycle is in flight *)

\* the request of call c and every history entry it posted carry the values of form
CallUsesForm(c, form) ==
  /\ c.request = GenerationRequest(form)
  /\ \A k \in 1..Len(c.posted) :
       /\ c.posted[k].platform = form.platform
       /\ c.posted[k].tone = Capitalize(form.tone)
       /\ c.posted[k].adText = form.adText
       /\ c.posted[k].outputs = Join(MapCapitalize(form.outputs), ", ")

\* C24: the request of a cycle carries the form of the moment handleGenerate was
\* invoked; while the cycle is in flight its form does not change, whatever the
\* user edits, and the history entry it posts carries that same form; and the
\* result a step sets is the one computed from the reply to that cycle's request.
C24_OneFormSnapshot ==
  [][ /\ HandleGenerate =>
           LET c == genCalls'[Len(genCalls')] IN
             c.form = formData /\ CallUsesForm(c, formData)
      /\ \A i \in GenIdx :
           ~Done(i) => /\ genCalls'[i].form = genCalls[i].form
                       /\ CallUsesForm(genCalls'[i], genCalls[i].form)
      /\ result' # result =>
           \E i \in GenIdx :
             /\ ~Done(i) /\ genCalls'[i].pc = "done"
             /\ result' = IF genCalls'[i].path = "try"
                            THEN SuccessResult(genCalls'[i].reply.body)
                            ELSE CatchResult(genCalls[i].form, genCalls'[i].reply) ]_vars

\* the history write of a cycle is awaited, and the form on screen has been edited
\* since the cycle started: the posted entry carries the platform of the request
C24_Witness ==
  \E i \in GenIdx :
    /\ genCalls[i].pc = "history"
    /\ Len(genCalls[i].posted) = 1
    /\ genCalls[i].posted[1].platform = genCalls[i].request.platform
    /\ genCalls[i].posted[1].platform # formData.platform
    /\ formData.adText # genCalls[i].request.ad_text

\* C25: whenever the ad text is empty or whitespace-only, or no output kind is
\* selected, the Generate control is disabled; every handleGenerate that was
\* started has a non-blank ad text and at least one output kind.
C25_GenerateNeedsRequiredFields ==
  /\ (Trim(formData.adText) = "" \/ Len(formData.outputs) = 0) => GenerateDisabled
  /\ \A i \in GenIdx :
       /\ Trim(genCalls[i].form.adText) # ""
       /\ Len(genCalls[i].form.outputs) > 0
       /\ Trim(genCalls[i].request.ad_text) # ""
       /\ Len(genCalls[i].request.outputs) > 0

\* after a finished cycle the user has blanked the ad text: the control is disabled
\* although no cycle is in flight
C25_Witness ==
  /\ AppPageRendered /\ ~generating
  /\ formData.adText = "   " /\ Len(formData.outputs) > 0
  /\ GenerateDisabled
  /\ \E i \in GenIdx : Done(i)

\* C30: a cycle starts by setting generating; its request is awaited, then its
\* history write is awaited, and only the step that ends the history write sets
\* the result and clears generating. So the result changes only in a step taken
\* while generating is true, and generating is true as long as the request or the
\* history write of a cycle is awaited.
C30_StepsInOrder ==
  [][ /\ HandleGenerate => generating' /\ genCalls'[Len(genCalls')].pc = "fetch"
      /\ \A i \in GenIdx :
           /\ genCalls[i].pc = "fetch" =>
                generating /\ genCalls'[i].pc \in {"fetch", "history"}
           /\ genCalls[i].pc = "history" =>
                generating /\ genCalls'[i].pc \in {"history", "done"}
           /\ (genCalls[i].pc # "done" /\ genCalls'[i].pc # "done") =>
                generating' /\ result' = result
      /\ result' # result =>
           /\ generating
           /\ \E i \in GenIdx : genCalls[i].pc = "history" /\ genCalls'[i].pc = "done"
      /\ (generating /\ ~generating') =>
           \E i \in GenIdx : genCalls[i].pc = "history" /\ genCalls'[i].pc = "done" ]_vars

\* the request failed and the fallback entry is being written: generating is still
\* true and no result has been set
C30_Witness ==
  /\ generating /\ result = NoResult
  /\ \E i \in GenIdx :
       /\ genCalls[i].pc = "history" /\ genCalls[i].path = "catch"
       /\ genCalls[i].writes = <<>>

----------------------------------------------------------------------------
(* The session: rendering and durable storage *)

\* C27: in every reachable state where the session is authenticated and the data
\* cache is not loading, the screen is the admin page, the one with the logout
\* button, also when the data cache holds a fetch error.
C27_LogoutOffered ==
  (isAdminAuthenticated /\ ~loading) => AdminPageRendered

\* C28: in every state reachable from empty durable storage by navigation, login
\* attempts, logouts and page reloads, currentView = "admin" implies that the
\* authenticated flag is true.
C28_AdminViewNeedsSession ==
  currentView = "admin" => isAdminAuthenticated

\* the page was loaded again on a stored admin session: the view is admin and the
\* flag is true before any login of this page
C28_Witness ==
  /\ currentView = "admin" /\ isAdminAuthenticated
  /\ adminToken = "tok-1" /\ loginCalls = <<>> /\ loading

====
